---- MODULE Spec2Model ----
(***************************************************************************)
(* A model of video_translator.py: the VideoTranslator pipeline            *)
(* (process_video and its stages), the batch worker                        *)
(* (MainWindow.process_videos) and the part of the MainWindow that feeds   *)
(* and starts it (video_files, is_processing, the signal handlers).        *)
(*                                                                         *)
(* Text is a sequence of one-character strings, so that strip, lower,      *)
(* rfind and concatenation are computed as Python computes them.           *)
(* A time in seconds is given by a whole number k of milliseconds and      *)
(* stands for the double nearest to k/1000, which is what a decimal        *)
(* literal or a rounded timestamp denotes in Python.                       *)
(***************************************************************************)
EXTENDS Integers, Sequences, FiniteSets, TLC

(***************************************************************************)
(* Bounds of the model.                                                    *)
(***************************************************************************)
\* The longest segment sequence the speech-to-text engine returns.
MaxSegs == 2

\* The most parts a generated file name is made of.
MaxNameParts == 3

\* The most files of a batch whose progress signals are followed.
MaxBatch == 50

\* Every time from 0 to MaxMillis milliseconds is formatted.
MaxMillis == 1100

(***************************************************************************)
(* Text helpers (Python str).                                              *)
(***************************************************************************)
DigitChars == <<"0", "1", "2", "3", "4", "5", "6", "7", "8", "9">>

\* str(n) / f"{n}" for n >= 0.
RECURSIVE StrOfNat(_)
StrOfNat(n) ==
    IF n < 10 THEN <<DigitChars[n + 1]>>
    ELSE StrOfNat(n \div 10) \o <<DigitChars[(n % 10) + 1]>>

\* f"{n:0wd}": zero-padded to width w, wider numbers are not cut.
RECURSIVE ZeroPad(_, _)
ZeroPad(s, w) == IF Len(s) >= w THEN s ELSE ZeroPad(<<"0">> \o s, w)

\* str.isspace for one character.
IsSpace(c) == c \in {" ", "\t", "\n"}

\* str.strip().
RECURSIVE LStrip(_)
LStrip(s) ==
    IF s # <<>> /\ IsSpace(Head(s)) THEN LStrip(Tail(s)) ELSE s

RECURSIVE RStrip(_)
RStrip(s) ==
    IF s # <<>> /\ IsSpace(s[Len(s)]) THEN RStrip(SubSeq(s, 1, Len(s) - 1)) ELSE s

Strip(s) == RStrip(LStrip(s))

UpperChars == <<"A", "B", "C", "D", "E", "F", "G", "H", "I", "J", "K", "L", "M",
                "N", "O", "P", "Q", "R", "S", "T", "U", "V", "W", "X", "Y", "Z">>
LowerChars == <<"a", "b", "c", "d", "e", "f", "g", "h", "i", "j", "k", "l", "m",
                "n", "o", "p", "q", "r", "s", "t", "u", "v", "w", "x", "y", "z">>

\* str.lower().
LowerChar(c) ==
    IF \E j \in 1..Len(UpperChars) : UpperChars[j] = c
    THEN LowerChars[CHOOSE j \in 1..Len(UpperChars) : UpperChars[j] = c]
    ELSE c

Lower(s) == [j \in 1..Len(s) |-> LowerChar(s[j])]

\* s.rfind(c), 1-based: the last position of c in s, 0 when there is none.
RECURSIVE RFind(_, _)
RFind(s, c) ==
    IF s = <<>> THEN 0
    ELSE IF s[Len(s)] = c THEN Len(s)
    ELSE RFind(SubSeq(s, 1, Len(s) - 1), c)

(***************************************************************************)
(* Paths (pathlib.PurePosixPath and os.path on normalised paths).          *)
(***************************************************************************)
\* Path(p).name
PathName(p) == SubSeq(p, RFind(p, "/") + 1, Len(p))

\* Path(p).parent
PathParent(p) ==
    LET j == RFind(p, "/")
    IN  IF j = 0 THEN <<".">>
        ELSE IF j = 1 THEN <<"/">>
        ELSE SubSeq(p, 1, j - 1)

\* Path(p).suffix: from the last dot of the name, unless that dot is the
\* first or the last character of the name.
PathSuffix(p) ==
    LET name == PathName(p)
        j == RFind(name, ".")
    IN  IF 1 < j /\ j < Len(name) THEN SubSeq(name, j, Len(name)) ELSE <<>>

\* Path(p).stem
PathStem(p) ==
    LET name == PathName(p)
        j == RFind(name, ".")
    IN  IF 1 < j /\ j < Len(name) THEN SubSeq(name, 1, j - 1) ELSE name

\* str(Path(dir) / name)
PathJoin(dir, name) ==
    IF dir = <<".">> THEN name
    ELSE IF dir = <<"/">> THEN <<"/">> \o name
    ELSE dir \o <<"/">> \o name

\* os.path.splitext(p)[1]: from the last dot of the last component, provided
\* a character other than a dot precedes it in that component.
SplitExt(p) ==
    LET sep == RFind(p, "/")
        dot == RFind(p, ".")
    IN  IF dot > sep /\ \E j \in (sep + 1)..(dot - 1) : p[j] # "."
        THEN SubSeq(p, dot, Len(p))
        ELSE <<>>

SUBTITLE == <<"_", "s", "u", "b", "t", "i", "t", "l", "e">>
SRT_SUFFIX == <<".", "s", "r", "t">>

\* process_video, lines 153-157: the directory the outputs go to; NoDir is
\* output_dir = None.
NoDir == <<>>
ResolveOutputDir(video_path, output_dir) ==
    IF output_dir # NoDir THEN output_dir ELSE PathParent(video_path)

\* An output name that lacks the _subtitle marker.
OutputPathUnmarked(video_path, output_dir) ==
    PathJoin(ResolveOutputDir(video_path, output_dir),
             PathStem(video_path) \o PathSuffix(video_path))

\* process_video, lines 159-160.
OutputPath(video_path, output_dir) ==
    PathJoin(ResolveOutputDir(video_path, output_dir),
             PathStem(video_path) \o SUBTITLE \o PathSuffix(video_path))

\* process_video, lines 161-162.
SrtPath(video_path, output_dir) ==
    PathJoin(ResolveOutputDir(video_path, output_dir),
             PathStem(video_path) \o SUBTITLE \o SRT_SUFFIX)

SUPPORTED_FORMATS ==
    { <<".", "m", "p", "4">>, <<".", "a", "v", "i">>, <<".", "m", "k", "v">>,
      <<".", "m", "o", "v">>, <<".", "w", "m", "v">>, <<".", "f", "l", "v">>,
      <<".", "w", "e", "b", "m">>, <<".", "m", "4", "v">> }

(***************************************************************************)
(* Double arithmetic, computed exactly on integers.  The double nearest    *)
(* to a/b is a/b + delta with delta a multiple of ulp/b, and the sign and  *)
(* size of delta follow from (a * 2^n) mod b.                              *)
(***************************************************************************)
RECURSIVE Pow2(_)
Pow2(n) == IF n = 0 THEN 1 ELSE 2 * Pow2(n - 1)

\* 2^n mod m
RECURSIVE PowMod2(_, _)
PowMod2(n, m) == IF n = 0 THEN 1 % m ELSE (2 * PowMod2(n - 1, m)) % m

\* floor(log2(n)) for n >= 1
RECURSIVE FloorLog2(_)
FloorLog2(n) == IF n < 2 THEN 0 ELSE 1 + FloorLog2(n \div 2)

\* The binary exponent of the doubles just below the integer n >= 1.
ExpBelow(n) ==
    FloorLog2(n) - (IF Pow2(FloorLog2(n)) = n THEN 1 ELSE 0)

\* The least j with a * 2^j >= b, for 0 < a.
RECURSIVE ShiftUpTo(_, _)
ShiftUpTo(a, b) == IF a >= b THEN 0 ELSE 1 + ShiftUpTo(2 * a, b)

\* format_time_srt, line 111: int((seconds - int(seconds)) * 1000) for the
\* double nearest to k/1000.  seconds - int(seconds) is exact; the product
\* is rounded to a double and then truncated.
Millis(k) ==
    LET s == k \div 1000
        m == k % 1000
        e == IF s >= 1 THEN FloorLog2(s) ELSE 0 - ShiftUpTo(m, 1000)
        rem == (m * PowMod2(52 - e, 1000)) % 1000
        d == ExpBelow(m) - e - 1
    IN  IF m = 0 \/ rem = 0 \/ rem >= 500 THEN m
        ELSE IF d >= 0 /\ rem <= Pow2(d) THEN m
        ELSE m - 1

\* format_time_srt, lines 107-112.
format_time_srt(k) ==
    LET s == k \div 1000
        hours == s \div 3600
        minutes == (s % 3600) \div 60
        secs == s % 60
        millis == Millis(k)
    IN  ZeroPad(StrOfNat(hours), 2) \o <<":">> \o ZeroPad(StrOfNat(minutes), 2)
        \o <<":">> \o ZeroPad(StrOfNat(secs), 2) \o <<",">>
        \o ZeroPad(StrOfNat(millis), 3)

\* process_videos, line 449: int((i / total) * 100) for 0 <= i < total, the
\* quotient and the product each rounded to a double.
Percent(i, total) ==
    LET n0 == (100 * i) \div total
        r0 == (100 * i) % total
        j == ShiftUpTo(i, total)
        rem == (i * PowMod2(52 + j, total)) % total
    IN  IF i = 0 THEN 0
        ELSE IF r0 # 0 \/ rem = 0 \/ 2 * rem >= total THEN n0
        ELSE IF 200 * rem <= total * Pow2(ExpBelow(n0) + j) THEN n0
        ELSE n0 - 1

(***************************************************************************)
(* Segments: Python dicts with keys start, end, text and, once translated, *)
(* translated.                                                             *)
(***************************************************************************)
ARROW == <<" ", "-", "-", ">", " ">>

\* save_srt, line 120: seg.get("translated", seg["text"]).
SegTranslated(seg) ==
    IF "translated" \in DOMAIN seg THEN seg.translated ELSE seg.text

\* save_srt, lines 118-126: the five lines written for cue n.
CueLines(n, seg) ==
    << StrOfNat(n),
       format_time_srt(seg.start) \o ARROW \o format_time_srt(seg.end),
       SegTranslated(seg),
       seg.text,
       <<>> >>

RECURSIVE SrtFrom(_, _)
SrtFrom(segments, n) ==
    IF n > Len(segments) THEN <<>>
    ELSE CueLines(n, segments[n]) \o SrtFrom(segments, n + 1)

\* A serializer that leaves out the cues whose text is empty.
RECURSIVE SrtFromSkipEmpty(_, _)
SrtFromSkipEmpty(segments, n) ==
    IF n > Len(segments) THEN <<>>
    ELSE (IF segments[n].text = <<>> THEN <<>> ELSE CueLines(n, segments[n]))
         \o SrtFromSkipEmpty(segments, n + 1)

save_srt_skip_empty(segments) == SrtFromSkipEmpty(segments, 1)

\* save_srt, lines 116-126: the lines of the file written, a text being one
\* line (the engine and the translator return single-line texts).
save_srt(segments) == SrtFrom(segments, 1)

\* transcribe_audio, lines 77-83: the engine's segments with text stripped.
Normalise(raw) ==
    [j \in 1..Len(raw) |->
        [start |-> raw[j].start, end |-> raw[j].end, text |-> Strip(raw[j].text)]]

\* The translation collaborator's reply to one call: a text, or an exception.
Raised == [ok |-> FALSE, text |-> <<>>]
Replies == { [ok |-> TRUE, text |-> <<"Z", "H">>], Raised }

\* A translate_text whose handler returns nothing usable.
translate_text_no_fallback(text, reply) ==
    IF Strip(text) = <<>> THEN <<>>
    ELSE IF reply.ok THEN reply.text
    ELSE <<>>

\* translate_text, lines 87-95.
translate_text(text, reply) ==
    IF Strip(text) = <<>> THEN <<>>
    ELSE IF reply.ok THEN reply.text
    ELSE text

\* A translate_segments that passes over the segments with blank text and
\* leaves them without a translated field.
translate_segments_skip_blank(segments, replies) ==
    [j \in 1..Len(segments) |->
        IF Strip(segments[j].text) = <<>>
        THEN [start |-> segments[j].start, end |-> segments[j].end,
              text |-> segments[j].text]
        ELSE [start |-> segments[j].start, end |-> segments[j].end,
              text |-> segments[j].text,
              translated |-> translate_text(segments[j].text, replies[j])]]

\* translate_segments, lines 97-105; replies[j] is what the collaborator
\* answers if it is called for segment j.
translate_segments(segments, replies) ==
    [j \in 1..Len(segments) |->
        [start |-> segments[j].start, end |-> segments[j].end,
         text |-> segments[j].text,
         translated |-> translate_text(segments[j].text, replies[j])]]

\* A collaborator that is called a second time after a call that raised.
RECURSIVE TranslatorCallsRetry(_, _, _)
TranslatorCallsRetry(segments, replies, n) ==
    IF n > Len(segments) THEN <<>>
    ELSE (IF Strip(segments[n].text) = <<>> THEN <<>>
          ELSE IF replies[n].ok THEN << <<n, TRUE>> >>
          ELSE << <<n, FALSE>>, <<n, FALSE>> >>)
         \o TranslatorCallsRetry(segments, replies, n + 1)

\* translate_text, lines 88-92: the calls made to the collaborator, in order,
\* each <<segment position, whether it returned>>; none for a blank text.
RECURSIVE TranslatorCalls(_, _, _)
TranslatorCalls(segments, replies, n) ==
    IF n > Len(segments) THEN <<>>
    ELSE (IF Strip(segments[n].text) = <<>> THEN <<>> ELSE << <<n, replies[n].ok>> >>)
         \o TranslatorCalls(segments, replies, n + 1)

(***************************************************************************)
(* The inputs of the model.                                                *)
(***************************************************************************)
VIDEOS == <<"/", "v", "i", "d", "e", "o", "s">>
A_MP4 == PathJoin(VIDEOS, <<"a", ".", "m", "p", "4">>)
B_TXT == PathJoin(VIDEOS, <<"b", ".", "t", "x", "t">>)
C_MKV == PathJoin(VIDEOS, <<"c", ".", "M", "K", "V">>)
A_SUB_MP4 == PathJoin(VIDEOS, <<"a">> \o SUBTITLE \o <<".", "m", "p", "4">>)

\* What one drop or one file dialog hands to on_files_dropped.
Drops == { <<A_MP4, B_TXT, C_MKV>>, <<A_SUB_MP4, A_MP4>> }

\* What the speech-to-text engine yields for one segment: spoken text with
\* the engine's leading blank, or a noise frame with blank text.
RawSegments ==
    { [start |-> 0, end |-> 1001, text |-> <<" ", "h", "i">>],
      [start |-> 3725250, end |-> 3727500, text |-> <<" ">>] }

\* The engine's results: up to MaxSegs segments, ascending by start.
EngineOutputs ==
    { r \in UNION { [1..n -> RawSegments] : n \in 0..MaxSegs } :
        \A j \in 1..(Len(r) - 1) : r[j].start <= r[j + 1].start }

\* Names tempfile.mkdtemp may pick.
TempNames == {"tmp1", "tmp2", "tmp3"}

\* tempfile.mkdtemp: creates a directory that did not exist.  Which of the
\* unused names it takes makes no difference to the program.
mkdtemp(dirs) == CHOOSE d \in TempNames \ dirs : TRUE

(***************************************************************************)
(* State.                                                                  *)
(***************************************************************************)
VARIABLES
    video_files,    \* MainWindow.video_files
    is_processing,  \* MainWindow.is_processing
    ffmpeg_found,   \* environment: the ffmpeg binary is on PATH
    threads,        \* the number of live worker threads
    wpc,            \* the worker's position in process_videos / process_video
    files,          \* process_videos: the files argument
    loop_i,         \* process_videos: i of the for loop
    success,        \* process_videos: success
    loaded,         \* process_videos: the number of load_model calls that returned
    results,        \* history: per attempted file, <<path, process_video returned True>>
    job,            \* the frame of the current (or last) process_video call
    temp_dirs,      \* the temporary directories that exist
    emitted,        \* the signals this batch's worker has emitted, in order
    pending,        \* terminal signals queued for the UI thread
    fn_in,          \* the argument of a function applied on its own
    fn_out          \* its result

vars == << video_files, is_processing, ffmpeg_found, threads, wpc, files, loop_i,
           success, loaded, results, job, temp_dirs, emitted, pending, fn_in, fn_out >>

ui_vars == << video_files, is_processing >>
worker_vars == << wpc, files, loop_i, success, loaded, results, job, temp_dirs, emitted >>
fn_vars == << fn_in, fn_out >>

NoJob ==
    [ video_path |-> <<>>, output_path |-> <<>>, srt_path |-> <<>>,
      temp_dir |-> "none", segments |-> <<>>, calls |-> <<>>,
      translator_calls |-> <<>>, written |-> {}, srt_lines |-> <<>>,
      outcome |-> "none" ]

MainInit ==
    /\ video_files = <<>>
    /\ is_processing = FALSE
    /\ ffmpeg_found \in BOOLEAN
    /\ threads = 0
    /\ wpc = "none"
    /\ files = <<>>
    /\ loop_i = 0
    /\ success = 0
    /\ loaded = 0
    /\ results = <<>>
    /\ job = NoJob
    /\ temp_dirs = {}
    /\ emitted = <<>>
    /\ pending = <<>>

Init ==
    /\ MainInit
    /\ fn_in = <<>>
    /\ fn_out = <<>>

(***************************************************************************)
(* The UI thread.                                                          *)
(***************************************************************************)
InSeq(x, list) == \E j \in 1..Len(list) : list[j] = x

\* A filter that compares the extension as it is spelled.
RECURSIVE AddDroppedCaseSensitive(_, _)
AddDroppedCaseSensitive(list, dropped) ==
    IF dropped = <<>> THEN list
    ELSE LET f == Head(dropped)
             ext == SplitExt(f)
         IN  AddDroppedCaseSensitive(IF ext \in SUPPORTED_FORMATS /\ ~InSeq(f, list)
                                     THEN Append(list, f) ELSE list,
                                     Tail(dropped))

\* on_files_dropped, lines 370-378: the list after the loop.
RECURSIVE AddDropped(_, _)
AddDropped(list, dropped) ==
    IF dropped = <<>> THEN list
    ELSE LET f == Head(dropped)
             ext == Lower(SplitExt(f))
         IN  AddDropped(IF ext \in SUPPORTED_FORMATS /\ ~InSeq(f, list)
                        THEN Append(list, f) ELSE list,
                        Tail(dropped))

\* DropArea.dropEvent -> MainWindow.on_files_dropped.
on_files_dropped ==
    /\ \E dropped \in Drops : video_files' = AddDropped(video_files, dropped)
    /\ UNCHANGED << is_processing, ffmpeg_found, threads, worker_vars, pending, fn_vars >>

\* MainWindow.add_files: the dialog returns a selection, possibly empty.
add_files ==
    /\ \E selected \in Drops \cup {<<>>} :
          video_files' = IF selected # <<>> THEN AddDropped(video_files, selected)
                         ELSE video_files
    /\ UNCHANGED << is_processing, ffmpeg_found, threads, worker_vars, pending, fn_vars >>

\* A clear_files on a list object that the worker shares.
clear_files_shared ==
    /\ video_files' = <<>>
    /\ files' = <<>>
    /\ UNCHANGED << is_processing, ffmpeg_found, threads, wpc, loop_i, success, loaded,
                    results, job, temp_dirs, emitted, pending, fn_vars >>

\* MainWindow.clear_files.
clear_files ==
    /\ video_files' = <<>>
    /\ UNCHANGED << is_processing, ffmpeg_found, threads, worker_vars, pending, fn_vars >>

\* A start_processing that does not look at is_processing.
start_processing_unguarded ==
    IF video_files = <<>>
    THEN UNCHANGED vars
    ELSE /\ is_processing' = TRUE
         /\ threads' = threads + 1
         /\ wpc' = "load_model"
         /\ files' = video_files
         /\ loop_i' = 0
         /\ success' = 0
         /\ loaded' = 0
         /\ results' = <<>>
         /\ job' = NoJob
         /\ emitted' = <<>>
         /\ UNCHANGED << video_files, ffmpeg_found, temp_dirs, pending, fn_vars >>

\* MainWindow.start_processing: returns at once without files or while a
\* batch runs; otherwise starts a worker thread on a copy of the list.
start_processing ==
    IF video_files = <<>> \/ is_processing
    THEN UNCHANGED vars
    ELSE /\ is_processing' = TRUE
         /\ threads' = threads + 1
         /\ wpc' = "load_model"
         /\ files' = video_files
         /\ loop_i' = 0
         /\ success' = 0
         /\ loaded' = 0
         /\ results' = <<>>
         /\ job' = NoJob
         /\ emitted' = <<>>
         /\ UNCHANGED << video_files, ffmpeg_found, temp_dirs, pending, fn_vars >>

\* MainWindow.on_finished, run by the UI thread for a queued finished signal.
on_finished ==
    /\ pending # <<>>
    /\ Head(pending)[1] = "finished"
    /\ pending' = Tail(pending)
    /\ is_processing' = FALSE
    /\ UNCHANGED << video_files, ffmpeg_found, threads, worker_vars, fn_vars >>

\* MainWindow.on_error, run by the UI thread for a queued error signal.
on_error ==
    /\ pending # <<>>
    /\ Head(pending)[1] = "error"
    /\ pending' = Tail(pending)
    /\ is_processing' = FALSE
    /\ UNCHANGED << video_files, ffmpeg_found, threads, worker_vars, fn_vars >>

(***************************************************************************)
(* The worker thread: process_videos, and process_video inside its loop.   *)
(* Each blocking call (model load, ffmpeg, the engine, the translator,     *)
(* the file write) is one step.                                            *)
(***************************************************************************)
\* A workspace released on return only: an exception leaves it behind.
TempAfterExitLeak(dirs, d, outcome) ==
    IF outcome = "raised" THEN dirs ELSE dirs \ {d}

\* tempfile.TemporaryDirectory.__exit__ (leaving the with block of line 164
\* by return or by exception): the directories that exist afterwards.
TempAfterExit(dirs, d, outcome) == dirs \ {d}

\* A loop that gives up at the first file that does not return True.
EndJobStopOnFailure(j, outcome) ==
    /\ job' = [j EXCEPT !.outcome = outcome]
    /\ temp_dirs' = temp_dirs \ {j.temp_dir}
    /\ success' = IF outcome = "True" THEN success + 1 ELSE success
    /\ results' = Append(results, <<j.video_path, outcome = "True">>)
    /\ emitted' = IF outcome = "raised"
                  THEN Append(emitted, <<"log", "Failed", j.video_path>>)
                  ELSE emitted
    /\ loop_i' = IF outcome = "True" THEN loop_i + 1 ELSE Len(files)
    /\ wpc' = "loop"
    /\ UNCHANGED << files, loaded >>

\* A job-level handler that reports on the error signal instead of the log.
EndJobErrorSignal(j, outcome) ==
    /\ job' = [j EXCEPT !.outcome = outcome]
    /\ temp_dirs' = temp_dirs \ {j.temp_dir}
    /\ success' = IF outcome = "True" THEN success + 1 ELSE success
    /\ results' = Append(results, <<j.video_path, outcome = "True">>)
    /\ emitted' = IF outcome = "raised" THEN Append(emitted, <<"error">>) ELSE emitted
    /\ loop_i' = loop_i + 1
    /\ wpc' = "loop"
    /\ UNCHANGED << files, loaded >>

\* No job-level handler: an exception of process_video reaches the handler
\* of the whole batch.
EndJobPropagate(j, outcome) ==
    /\ job' = [j EXCEPT !.outcome = outcome]
    /\ temp_dirs' = temp_dirs \ {j.temp_dir}
    /\ success' = IF outcome = "True" THEN success + 1 ELSE success
    /\ results' = Append(results, <<j.video_path, outcome = "True">>)
    /\ emitted' = IF outcome = "raised" THEN Append(emitted, <<"error">>) ELSE emitted
    /\ loop_i' = loop_i + 1
    /\ wpc' = IF outcome = "raised" THEN "ended" ELSE "loop"
    /\ UNCHANGED << files, loaded >>

\* process_videos, lines 453-457 with process_video's exit: process_video
\* returned True or False, or raised; j is its frame at that point.
EndJob(j, outcome) ==
    /\ job' = [j EXCEPT !.outcome = outcome]
    /\ temp_dirs' = TempAfterExit(temp_dirs, j.temp_dir, outcome)
    /\ success' = IF outcome = "True" THEN success + 1 ELSE success
    /\ results' = Append(results, <<j.video_path, outcome = "True">>)
    /\ emitted' = IF outcome = "raised"
                  THEN Append(emitted, <<"log", "Failed", j.video_path>>)
                  ELSE emitted
    /\ loop_i' = loop_i + 1
    /\ wpc' = "loop"
    /\ UNCHANGED << files, loaded >>

Called(j, stage, ok) == [j EXCEPT !.calls = Append(@, <<stage, ok>>)]

\* A load failure that is reported but does not end the batch.
DoLoadModelContinue ==
    /\ wpc = "load_model"
    /\ \E ok \in BOOLEAN :
          /\ loaded' = IF ok THEN loaded + 1 ELSE loaded
          /\ emitted' = IF ok THEN emitted ELSE Append(emitted, <<"error">>)
          /\ wpc' = "loop"
    /\ UNCHANGED << ui_vars, ffmpeg_found, threads, files, loop_i, success, results,
                    job, temp_dirs, pending, fn_vars >>

\* process_videos, lines 441-446 and 462-463: load_model returns or raises.
DoLoadModel ==
    /\ wpc = "load_model"
    /\ \E ok \in BOOLEAN :
          IF ok
          THEN /\ loaded' = loaded + 1
               /\ wpc' = "loop"
               /\ UNCHANGED << emitted, pending, threads >>
          ELSE /\ emitted' = Append(emitted, <<"error">>)
               /\ pending' = Append(pending, <<"error">>)
               /\ wpc' = "ended"
               /\ threads' = threads - 1
               /\ UNCHANGED loaded
    /\ UNCHANGED << ui_vars, ffmpeg_found, files, loop_i, success, results, job,
                    temp_dirs, fn_vars >>

\* A loop that loads the model again for every file.
DoNextFileReload ==
    /\ wpc = "loop"
    /\ loop_i < Len(files)
    /\ TempNames \ temp_dirs # {}
    /\ LET video_path == files[loop_i + 1]
       IN  /\ emitted' = Append(emitted,
                               << "progress", Percent(loop_i, Len(files)),
                                  loop_i + 1, Len(files), PathName(video_path) >>)
           /\ temp_dirs' = temp_dirs \cup {mkdtemp(temp_dirs)}
           /\ job' = [NoJob EXCEPT !.video_path = video_path,
                                   !.output_path = OutputPath(video_path, NoDir),
                                   !.srt_path = SrtPath(video_path, NoDir),
                                   !.temp_dir = mkdtemp(temp_dirs),
                                   !.outcome = "running"]
    /\ loaded' = loaded + 1
    /\ wpc' = "extract_audio"
    /\ UNCHANGED << ui_vars, ffmpeg_found, threads, files, loop_i, success,
                    results, pending, fn_vars >>

\* process_videos, lines 447-451, and process_video, lines 153-165: the
\* progress signal of file i, the derived paths, the temporary directory.
DoNextFile ==
    /\ wpc = "loop"
    /\ loop_i < Len(files)
    /\ TempNames \ temp_dirs # {}   \* mkdtemp has a name left to take
    /\ LET video_path == files[loop_i + 1]
       IN  /\ emitted' = Append(emitted,
                               << "progress", Percent(loop_i, Len(files)),
                                  loop_i + 1, Len(files), PathName(video_path) >>)
           /\ temp_dirs' = temp_dirs \cup {mkdtemp(temp_dirs)}
           /\ job' = [NoJob EXCEPT !.video_path = video_path,
                                   !.output_path = OutputPath(video_path, NoDir),
                                   !.srt_path = SrtPath(video_path, NoDir),
                                   !.temp_dir = mkdtemp(temp_dirs),
                                   !.outcome = "running"]
    /\ wpc' = "extract_audio"
    /\ UNCHANGED << ui_vars, ffmpeg_found, threads, files, loop_i, success, loaded,
                    results, pending, fn_vars >>

\* A pipeline that does not look at what extract_audio returned.
DoExtractAudioUnchecked ==
    /\ wpc = "extract_audio"
    /\ \E run \in {"ok", "nonzero", "raised"} :
          LET got == IF ffmpeg_found THEN run ELSE "not_found"
          IN  /\ job' = Called(job, "extract_audio", got = "ok")
              /\ wpc' = "transcribe_audio"
    /\ UNCHANGED << ui_vars, ffmpeg_found, threads, files, loop_i, success, loaded,
                    results, temp_dirs, emitted, pending, fn_vars >>

\* process_video, lines 167-168, with extract_audio: ffmpeg exits 0 or not,
\* or subprocess.run raises (FileNotFoundError when there is no ffmpeg).
DoExtractAudio ==
    /\ wpc = "extract_audio"
    /\ \E run \in {"ok", "nonzero", "raised"} :
          LET got == IF ffmpeg_found THEN run ELSE "not_found"
              j == Called(job, "extract_audio", got = "ok")
          IN  IF got = "ok"
              THEN /\ job' = j
                   /\ wpc' = "transcribe_audio"
                   /\ UNCHANGED << files, loop_i, success, loaded, results,
                                   temp_dirs, emitted >>
              ELSE EndJob(j, "False")
    /\ UNCHANGED << ui_vars, ffmpeg_found, threads, pending, fn_vars >>

\* A pipeline without the check for an empty transcription.
DoTranscribeAudioNoEmptyCheck ==
    /\ wpc = "transcribe_audio"
    /\ \/ EndJob(Called(job, "transcribe_audio", FALSE), "raised")
       \/ \E raw \in EngineOutputs :
             LET segments == Normalise(raw)
             IN  /\ job' = Called([job EXCEPT !.segments = segments],
                                  "transcribe_audio", segments # <<>>)
                 /\ wpc' = "translate_segments"
                 /\ UNCHANGED << files, loop_i, success, loaded, results,
                                 temp_dirs, emitted >>
    /\ UNCHANGED << ui_vars, ffmpeg_found, threads, pending, fn_vars >>

\* process_video, lines 170-173, with transcribe_audio: the engine raises,
\* or yields segments; no segments is a failed job.
DoTranscribeAudio ==
    /\ wpc = "transcribe_audio"
    /\ \/ EndJob(Called(job, "transcribe_audio", FALSE), "raised")
       \/ \E raw \in EngineOutputs :
             LET segments == Normalise(raw)
                 j == Called([job EXCEPT !.segments = segments],
                             "transcribe_audio", segments # <<>>)
             IN  IF segments = <<>>
                 THEN EndJob(j, "False")
                 ELSE /\ job' = j
                      /\ wpc' = "translate_segments"
                      /\ UNCHANGED << files, loop_i, success, loaded, results,
                                      temp_dirs, emitted >>
    /\ UNCHANGED << ui_vars, ffmpeg_found, threads, pending, fn_vars >>

\* process_video, line 175, with translate_segments.
DoTranslateSegments ==
    /\ wpc = "translate_segments"
    /\ \E replies \in [1..Len(job.segments) -> Replies] :
          job' = Called([job EXCEPT
                            !.segments = translate_segments(job.segments, replies),
                            !.translator_calls = TranslatorCalls(job.segments, replies, 1)],
                        "translate_segments", TRUE)
    /\ wpc' = "save_srt"
    /\ UNCHANGED << ui_vars, ffmpeg_found, threads, files, loop_i, success, loaded,
                    results, temp_dirs, emitted, pending, fn_vars >>

\* process_video, line 176, with save_srt: open() raises, or the file is
\* written.
DoSaveSrt ==
    /\ wpc = "save_srt"
    /\ \/ EndJob(Called(job, "save_srt", FALSE), "raised")
       \/ /\ job' = Called([job EXCEPT !.srt_lines = save_srt(job.segments),
                                       !.written = @ \cup {job.srt_path}],
                           "save_srt", TRUE)
          /\ wpc' = "embed_subtitle"
          /\ UNCHANGED << files, loop_i, success, loaded, results, temp_dirs, emitted >>
    /\ UNCHANGED << ui_vars, ffmpeg_found, threads, pending, fn_vars >>

\* process_video, lines 178-181, with embed_subtitle: ffmpeg exits 0, exits
\* non-zero (with or without a partial output file), or the call raises.
DoEmbedSubtitle ==
    /\ wpc = "embed_subtitle"
    /\ \E run \in {"ok", "nonzero", "nonzero_partial", "raised"} :
          LET got == IF ffmpeg_found THEN run ELSE "not_found"
              out == IF got \in {"ok", "nonzero_partial"} THEN {job.output_path} ELSE {}
              j == Called([job EXCEPT !.written = @ \cup out], "embed_subtitle", got = "ok")
          IN  EndJob(j, IF got = "ok" THEN "True" ELSE "False")
    /\ UNCHANGED << ui_vars, ffmpeg_found, threads, pending, fn_vars >>

\* process_videos, lines 459-460, after the loop.
DoFinishBatch ==
    /\ wpc = "loop"
    /\ loop_i >= Len(files)
    /\ emitted' = emitted \o << <<"progress", 100, "Done">>,
                                <<"finished", success, Len(files)>> >>
    /\ pending' = Append(pending, <<"finished", success, Len(files)>>)
    /\ wpc' = "ended"
    /\ threads' = threads - 1
    /\ UNCHANGED << ui_vars, ffmpeg_found, files, loop_i, success, loaded, results,
                    job, temp_dirs, fn_vars >>

Next ==
    \/ on_files_dropped
    \/ add_files
    \/ clear_files
    \/ start_processing
    \/ on_finished
    \/ on_error
    \/ DoLoadModel
    \/ DoNextFile
    \/ DoExtractAudio
    \/ DoTranscribeAudio
    \/ DoTranslateSegments
    \/ DoSaveSrt
    \/ DoEmbedSubtitle
    \/ DoFinishBatch

Spec == Init /\ [][Next]_vars

(***************************************************************************)
(* process_video's path derivation applied on its own to a range of input  *)
(* paths and output directories.                                           *)
(***************************************************************************)
NameParts ==
    { <<"c", "l", "i", "p">>, <<".">>, SUBTITLE, <<"s", "r", "t">>, <<"m", "p", "4">> }

RECURSIVE Flatten(_)
Flatten(parts) == IF parts = <<>> THEN <<>> ELSE Head(parts) \o Flatten(Tail(parts))

\* File names; "." and ".." name no file.
FileNames ==
    { Flatten(t) : t \in UNION { [1..n -> NameParts] : n \in 1..MaxNameParts } }
        \ { <<".">>, <<".", ".">> }

OUT == <<"/", "o", "u", "t">>

PathInputs ==
    { [video_path |-> PathJoin(d, name), output_dir |-> o] :
        d \in {VIDEOS, <<".">>}, name \in FileNames, o \in {NoDir, VIDEOS, OUT} }

PathsInit ==
    /\ MainInit
    /\ ffmpeg_found
    /\ fn_in \in PathInputs
    /\ fn_out = <<>>

\* process_video, lines 153-162.
DerivePaths ==
    /\ fn_out = <<>>
    /\ fn_out' = [ output_path |-> OutputPath(fn_in.video_path, fn_in.output_dir),
                   srt_path |-> SrtPath(fn_in.video_path, fn_in.output_dir) ]
    /\ UNCHANGED << ui_vars, ffmpeg_found, threads, worker_vars, pending, fn_in >>

SpecPaths == PathsInit /\ [][DerivePaths]_vars

(***************************************************************************)
(* The batch loop of process_videos on lists of up to MaxBatch files.      *)
(* process_video is one step here that returns True or False; its stages   *)
(* and its exceptions are those of Spec.                                   *)
(***************************************************************************)
NumberedFile(k) == PathJoin(VIDEOS, StrOfNat(k) \o <<".", "m", "p", "4">>)

BatchOf(n) == [k \in 1..n |-> NumberedFile(k)]

\* The state in which start_processing leaves a window with n files.
ProgressInit ==
    /\ \E n \in 1..MaxBatch :
          /\ video_files = BatchOf(n)
          /\ files = BatchOf(n)
    /\ is_processing = TRUE
    /\ ffmpeg_found = TRUE
    /\ threads = 1
    /\ wpc = "load_model"
    /\ loop_i = 0
    /\ success = 0
    /\ loaded = 0
    /\ results = <<>>
    /\ job = NoJob
    /\ temp_dirs = {}
    /\ emitted = <<>>
    /\ pending = <<>>
    /\ fn_in = <<>>
    /\ fn_out = <<>>

\* process_videos, lines 453-455: process_video returns True or False.
DoProcessVideo ==
    /\ wpc = "extract_audio"
    /\ \E ok \in BOOLEAN :
          /\ job' = [job EXCEPT !.outcome = IF ok THEN "True" ELSE "False"]
          /\ success' = IF ok THEN success + 1 ELSE success
    /\ temp_dirs' = TempAfterExit(temp_dirs, job.temp_dir, "returned")
    /\ loop_i' = loop_i + 1
    /\ wpc' = "loop"
    /\ UNCHANGED << ui_vars, ffmpeg_found, threads, files, loaded, results, emitted,
                    pending, fn_vars >>

NextProgress ==
    \/ DoLoadModel
    \/ DoNextFile
    \/ DoProcessVideo
    \/ DoFinishBatch

SpecProgress == ProgressInit /\ [][NextProgress]_vars

(***************************************************************************)
(* translate_segments applied on its own to segment lists whose texts are  *)
(* as a caller may pass them: empty, blank, or with words.                 *)
(***************************************************************************)
TranslateTexts ==
    { <<>>, <<" ">>, <<" ", "\t">>, <<"h", "i">>, <<" ", "h", "i">>, <<"o", "k", " ">> }

TranslateInputs ==
    { [n \in 1..Len(t) |-> [start |-> 1000 * (n - 1), end |-> 1000 * n, text |-> t[n]]] :
        t \in UNION { [1..n -> TranslateTexts] : n \in 0..MaxSegs } }

TranslateInit ==
    /\ MainInit
    /\ ffmpeg_found
    /\ fn_in \in TranslateInputs
    /\ fn_out = <<>>

\* translate_segments, lines 97-105, with the collaborator's replies.
ApplyTranslateSegments ==
    /\ fn_out = <<>>
    /\ \E replies \in [1..Len(fn_in) -> Replies] :
          fn_out' = [ segments |-> translate_segments(fn_in, replies),
                      calls |-> TranslatorCalls(fn_in, replies, 1) ]
    /\ UNCHANGED << ui_vars, ffmpeg_found, threads, worker_vars, pending, fn_in >>

SpecTranslate == TranslateInit /\ [][ApplyTranslateSegments]_vars

(***************************************************************************)
(* format_time_srt applied on its own to times given in whole              *)
(* milliseconds: every time up to MaxMillis, and some long ones.           *)
(***************************************************************************)
LongTimes == {3725250, 3727500, 86399999, 359999999, 360000000}

TimeInit ==
    /\ MainInit
    /\ ffmpeg_found
    /\ fn_in \in (0..MaxMillis) \cup LongTimes
    /\ fn_out = <<>>

\* format_time_srt, lines 107-112.
ApplyFormatTime ==
    /\ fn_out = <<>>
    /\ fn_out' = format_time_srt(fn_in)
    /\ UNCHANGED << ui_vars, ffmpeg_found, threads, worker_vars, pending, fn_in >>

SpecTime == TimeInit /\ [][ApplyFormatTime]_vars

(***************************************************************************)
(* Properties.                                                             *)
(***************************************************************************)
\* The number of entries of results whose process_video returned True.
RECURSIVE CountTrue(_)
CountTrue(rs) ==
    IF rs = <<>> THEN 0
    ELSE (IF Head(rs)[2] THEN 1 ELSE 0) + CountTrue(Tail(rs))

\* The number of signals of one kind in a sequence of emitted signals.
RECURSIVE CountKind(_, _)
CountKind(es, kind) ==
    IF es = <<>> THEN 0
    ELSE (IF Head(es)[1] = kind THEN 1 ELSE 0) + CountKind(Tail(es), kind)

JobStages == <<"extract_audio", "transcribe_audio", "translate_segments",
               "save_srt", "embed_subtitle">>

StagePos(stage) == CHOOSE k \in 1..Len(JobStages) : JobStages[k] = stage

InJob == \E k \in 1..Len(JobStages) : JobStages[k] = wpc

\* C1: process_videos attempts the files one by one in list order, a failed
\* file does not end the loop, and the finished summary reports the number
\* of files whose process_video returned True out of the length of the list.
C1_BatchAttemptsEveryFile ==
    /\ Len(results) = loop_i
    /\ loop_i <= Len(files)
    /\ \A k \in 1..Len(results) : results[k][1] = files[k]
    /\ InJob => /\ loop_i < Len(files)
                /\ job.video_path = files[loop_i + 1]
    /\ (wpc = "loop" /\ loop_i < Len(files)) => CountKind(emitted, "finished") = 0
    /\ CountKind(emitted, "finished") > 0 =>
          /\ Len(results) = Len(files)
          /\ emitted[Len(emitted)] = <<"finished", CountTrue(results), Len(files)>>

\* C1 witness: three files, only the second fails, the summary is 2/3.
C1_Witness ==
    /\ Len(files) = 3
    /\ Len(results) = 3
    /\ results[1][2] /\ ~results[2][2] /\ results[3][2]
    /\ emitted # <<>>
    /\ emitted[Len(emitted)] = <<"finished", 2, 3>>

\* C2: a batch run emits at most one terminal signal, never both finished
\* and error, none before it ends, and exactly one when it has ended.
C2_ExactlyOneTerminalSignal ==
    LET nf == CountKind(emitted, "finished")
        ne == CountKind(emitted, "error")
    IN  /\ nf + ne <= 1
        /\ wpc = "ended" => nf + ne = 1
        /\ wpc # "ended" => nf + ne = 0
        /\ nf + ne = 1 => emitted[Len(emitted)][1] \in {"finished", "error"}

\* C2 witness: a run in which a job raised has ended with finished alone.
C2_Witness ==
    /\ wpc = "ended"
    /\ CountKind(emitted, "log") > 0
    /\ CountKind(emitted, "finished") = 1
    /\ CountKind(emitted, "error") = 0

\* C3: the stages of one job are called in the order extract, transcribe,
\* translate, write subtitle, embed; every stage but the last one called
\* has succeeded (transcription: returned segments); the stage about to run
\* is the successor of the last one called; True is returned only after a
\* successful embed.
C3_StagesInOrder ==
    /\ Len(job.calls) <= Len(JobStages)
    /\ \A k \in 1..Len(job.calls) :
          /\ job.calls[k][1] = JobStages[k]
          /\ k < Len(job.calls) => job.calls[k][2]
    /\ InJob => /\ StagePos(wpc) = Len(job.calls) + 1
                /\ \A k \in 1..Len(job.calls) : job.calls[k][2]
                /\ job.outcome = "running"
    /\ job.outcome = "True" => job.calls[Len(JobStages)] = <<"embed_subtitle", TRUE>>
    /\ (job.calls # <<>> /\ ~job.calls[Len(job.calls)][2]) =>
          job.outcome \in {"False", "raised"}

\* C3 witness: a job whose transcription returned no segments has stopped
\* after that stage.
C3_Witness ==
    /\ job.outcome = "False"
    /\ job.calls = << <<"extract_audio", TRUE>>, <<"transcribe_audio", FALSE>> >>

\* The last job's transcription returned (did not raise) an empty sequence.
ZeroSpeech ==
    /\ Len(job.calls) >= 2
    /\ job.calls[2] = <<"transcribe_audio", FALSE>>
    /\ job.outcome # "raised"

\* C4: when transcription returns no segments the job has failed: it
\* returned False, the file is recorded as not succeeded, save_srt and
\* embed_subtitle were not called and the job wrote no file.
C4_ZeroSpeechFailsJob ==
    ZeroSpeech =>
        /\ job.outcome = "False"
        /\ job.segments = <<>>
        /\ Len(job.calls) = 2
        /\ job.written = {}
        /\ job.srt_lines = <<>>
        /\ results # <<>>
        /\ results[Len(results)] = <<job.video_path, FALSE>>
        /\ success = CountTrue(results)

\* C4 witness: the second file of a batch had no speech, after a first file
\* that succeeded.
C4_Witness ==
    /\ ZeroSpeech
    /\ job.outcome = "False"
    /\ Len(results) = 2
    /\ success = 1

\* C5: once translate_segments has been called it has returned (nothing
\* escaped), every segment has translated set, every segment whose
\* collaborator call raised has translated = text, and the job goes on:
\* save_srt is next or was called, embed_subtitle follows a written file,
\* and a job that returns False after translation failed in embed_subtitle.
C5_TranslationFailureRecovered ==
    Len(job.calls) >= 3 =>
        /\ job.calls[3] = <<"translate_segments", TRUE>>
        /\ \A n \in 1..Len(job.segments) : "translated" \in DOMAIN job.segments[n]
        /\ \A c \in 1..Len(job.translator_calls) :
              ~job.translator_calls[c][2] =>
                  LET seg == job.segments[job.translator_calls[c][1]]
                  IN  seg.translated = seg.text
        /\ wpc = "save_srt" \/ (Len(job.calls) >= 4 /\ job.calls[4][1] = "save_srt")
        /\ (Len(job.calls) >= 4 /\ job.calls[4][2]) =>
              (wpc = "embed_subtitle" \/ Len(job.calls) = 5)
        /\ job.outcome = "False" => job.calls[Len(job.calls)] = <<"embed_subtitle", FALSE>>

\* C5 witness: every call of the collaborator raised, for two segments with
\* text, and the job still returned True.
C5_Witness ==
    /\ job.outcome = "True"
    /\ Len(job.translator_calls) = 2
    /\ \A c \in 1..Len(job.translator_calls) : ~job.translator_calls[c][2]

\* C6, as claimed: an environment error (no ffmpeg binary, or a model that
\* does not load) ends the batch with one error signal and no finished
\* signal, and no file is processed after it is detected.
C6_EnvironmentErrorsFatal ==
    /\ (wpc = "ended" /\ loaded = 0) =>
          /\ emitted = << <<"error">> >>
          /\ results = <<>>
    /\ ~ffmpeg_found =>
          /\ CountKind(emitted, "finished") = 0
          /\ loop_i <= 1
          /\ loop_i = 1 => ~InJob
          /\ wpc = "ended" => CountKind(emitted, "error") = 1

\* C6, amended: a model that does not load ends the batch with one error
\* signal, no finished signal and no file processed, and no file is
\* processed before the model is loaded.  A missing ffmpeg binary fails
\* each file at extract_audio and only there; the batch attempts every file
\* and ends with finished reporting 0 succeeded and no error signal.
C6_LoadFailureFatalMissingToolPerFile ==
    /\ (wpc = "ended" /\ loaded = 0) =>
          /\ emitted = << <<"error">> >>
          /\ results = <<>>
          /\ job = NoJob
          /\ loop_i = 0
    /\ loaded = 0 => wpc \in {"none", "load_model", "ended"}
    /\ loaded <= 1
    /\ ~ffmpeg_found =>
          /\ success = 0
          /\ \A k \in 1..Len(results) : ~results[k][2]
          /\ job.calls # <<>> =>
                /\ job.calls = << <<"extract_audio", FALSE>> >>
                /\ job.outcome = "False"
          /\ loaded = 1 => CountKind(emitted, "error") = 0
          /\ (wpc = "ended" /\ loaded = 1) =>
                /\ Len(results) = Len(files)
                /\ emitted[Len(emitted)] = <<"finished", 0, Len(files)>>

\* C6 witness: without ffmpeg a batch of three files has ended with
\* finished 0/3.
C6_Witness ==
    /\ ~ffmpeg_found
    /\ wpc = "ended"
    /\ Len(results) = 3
    /\ emitted[Len(emitted)] = <<"finished", 0, 3>>

\* C7: the temporary directory of a job exists exactly while the job runs:
\* a running job has one directory, its own; after the job has ended by
\* return or by exception its directory does not exist; between jobs and
\* after the batch none exists, so a new job's directory is no earlier
\* job's.
C7_TempWorkspaceReleased ==
    /\ InJob => /\ temp_dirs = {job.temp_dir}
                /\ job.temp_dir \in TempNames
    /\ ~InJob => temp_dirs = {}
    /\ job.outcome \in {"True", "False", "raised"} => job.temp_dir \notin temp_dirs

\* C7 witness: jobs have ended by an exception in save_srt after an earlier
\* job of the batch, and no directory is left.
C7_Witness ==
    /\ job.outcome = "raised"
    /\ job.calls[Len(job.calls)] = <<"save_srt", FALSE>>
    /\ Len(results) >= 2
    /\ temp_dirs = {}

\* C8: the output video path and the subtitle path differ from the input
\* path, lie in the output directory (the input's directory when none is
\* given) and are named <stem>_subtitle<ext> and <stem>_subtitle.srt;
\* /videos/clip.mp4 gives /videos/clip_subtitle.mp4 and
\* /videos/clip_subtitle.srt.
C8_OutputPathsDerived ==
    fn_out # <<>> =>
        LET dir == IF fn_in.output_dir # NoDir THEN fn_in.output_dir
                   ELSE PathParent(fn_in.video_path)
        IN  /\ fn_out.output_path # fn_in.video_path
            /\ fn_out.srt_path # fn_in.video_path
            /\ PathParent(fn_out.output_path) = dir
            /\ PathParent(fn_out.srt_path) = dir
            /\ PathName(fn_out.output_path) =
                  PathStem(fn_in.video_path) \o SUBTITLE \o PathSuffix(fn_in.video_path)
            /\ PathName(fn_out.srt_path) =
                  PathStem(fn_in.video_path) \o SUBTITLE \o SRT_SUFFIX
            /\ Len(PathName(fn_out.output_path)) =
                  Len(PathName(fn_in.video_path)) + Len(SUBTITLE)
            /\ fn_in = [video_path |-> PathJoin(VIDEOS, <<"c", "l", "i", "p", ".", "m", "p", "4">>),
                        output_dir |-> NoDir] =>
                  /\ fn_out.output_path =
                        PathJoin(VIDEOS, <<"c", "l", "i", "p">> \o SUBTITLE \o <<".", "m", "p", "4">>)
                  /\ fn_out.srt_path =
                        PathJoin(VIDEOS, <<"c", "l", "i", "p">> \o SUBTITLE \o <<".", "s", "r", "t">>)

\* C8 witness: the paths of /videos/clip.mp4 with no output directory.
C8_Witness ==
    /\ fn_in = [video_path |-> PathJoin(VIDEOS, <<"c", "l", "i", "p", ".", "m", "p", "4">>),
                output_dir |-> NoDir]
    /\ fn_out # <<>>
    /\ fn_out.srt_path = VIDEOS \o <<"/">> \o <<"c", "l", "i", "p">> \o SUBTITLE \o SRT_SUFFIX

\* C9: the file save_srt writes for N segments has 5*N lines, and cue k
\* is, in this order, the index k, the timecode line of segment k, its
\* translated text, its original text and an empty line.
C9_SrtHasFiveLinesPerSegment ==
    (Len(job.calls) >= 4 /\ job.calls[4] = <<"save_srt", TRUE>>) =>
        /\ Len(job.srt_lines) = 5 * Len(job.segments)
        /\ \A k \in 1..Len(job.segments) :
              LET seg == job.segments[k]
                  at == 5 * (k - 1)
              IN  /\ job.srt_lines[at + 1] = StrOfNat(k)
                  /\ job.srt_lines[at + 2] =
                        format_time_srt(seg.start) \o ARROW \o format_time_srt(seg.end)
                  /\ job.srt_lines[at + 3] = seg.translated
                  /\ job.srt_lines[at + 4] = seg.text
                  /\ job.srt_lines[at + 5] = <<>>

\* C9 witness: a file of MaxSegs cues was written, one of them for a
\* segment with empty text.
C9_Witness ==
    /\ Len(job.calls) >= 4
    /\ job.calls[4] = <<"save_srt", TRUE>>
    /\ Len(job.segments) = MaxSegs
    /\ \E k \in 1..Len(job.segments) : job.segments[k].text = <<>>
    /\ Len(job.srt_lines) = 5 * MaxSegs

\* C10: an exception raised inside a job is logged as Failed with the
\* file's path, the file is recorded as not succeeded, no error signal is
\* emitted for it, the loop goes on, and the batch ends with finished after
\* every file was attempted.
C10_JobExceptionCaught ==
    /\ job.outcome = "raised" =>
          /\ \E k \in 1..Len(emitted) : emitted[k] = <<"log", "Failed", job.video_path>>
          /\ results[Len(results)] = <<job.video_path, FALSE>>
          /\ wpc \in {"loop", "ended"}
    /\ \A k \in 1..Len(emitted) :
          emitted[k][1] = "log" =>
              \E n \in 1..Len(results) : results[n] = <<emitted[k][3], FALSE>>
    /\ CountKind(emitted, "log") > 0 =>
          /\ CountKind(emitted, "error") = 0
          /\ wpc = "ended" =>
                /\ Len(results) = Len(files)
                /\ emitted[Len(emitted)] = <<"finished", success, Len(files)>>

\* C10 witness: the first file of a batch raised, the second succeeded, and
\* the batch ended with finished 1/2.
C10_Witness ==
    /\ wpc = "ended"
    /\ Len(files) = 2
    /\ Len(results) = 2
    /\ emitted[2] = <<"log", "Failed", files[1]>>
    /\ results[2][2]
    /\ emitted[Len(emitted)] = <<"finished", 1, 2>>

\* C11: load_model is called once per batch, before any file: nothing of a
\* file (progress signal, job, result) exists until it has returned, it is
\* not called again while the files are processed, and when it raises the
\* batch ends with the error signal alone and process_video was called for
\* no file.
C11_ModelLoadedOncePerBatch ==
    LET failed == CountKind(emitted, "error")
    IN  /\ loaded + failed <= 1
        /\ wpc = "load_model" =>
              /\ loaded + failed = 0
              /\ emitted = <<>> /\ results = <<>> /\ job = NoJob
        /\ wpc \in {"loop", "ended"} \/ InJob => loaded + failed = 1
        /\ InJob \/ wpc = "loop" => loaded = 1
        /\ (results # <<>> \/ job # NoJob \/ CountKind(emitted, "progress") > 0) =>
              loaded = 1
        /\ failed = 1 =>
              /\ wpc = "ended"
              /\ emitted = << <<"error">> >>
              /\ results = <<>> /\ job = NoJob /\ temp_dirs = {}

\* C11 witness: a batch of three files has been processed to the end on
\* one load of the model.
C11_Witness ==
    /\ wpc = "ended"
    /\ Len(results) = 3
    /\ loaded = 1
    /\ CountKind(emitted, "finished") = 1

\* The progress signals among a sequence of emitted signals.
Progress(es) == SelectSeq(es, LAMBDA e : e[1] = "progress")

\* The number of files whose job has started.
Started == loop_i + (IF InJob THEN 1 ELSE 0)

\* The progress signals are those of the files started so far, one each in
\* list order and before the file's job, followed after the last job by the
\* final one and the finished summary.
ProgressInOrder ==
    LET p == Progress(emitted)
        done == CountKind(emitted, "finished")
    IN  /\ Len(p) = Started + done
        /\ \A k \in 1..Started :
              /\ Len(p[k]) = 5
              /\ p[k][3] = k /\ p[k][4] = Len(files)
              /\ p[k][5] = PathName(files[k])
              /\ p[k][2] < 100
              /\ k > 1 => p[k - 1][2] <= p[k][2]
        /\ (InJob /\ job.calls = <<>>) => emitted[Len(emitted)] = p[Started]
        /\ done = 1 =>
              /\ Started = Len(files)
              /\ Len(emitted) >= 2
              /\ emitted[Len(emitted) - 1] = <<"progress", 100, "Done">>
              /\ emitted[Len(emitted)][1] = "finished"

\* C12, as claimed: file i (the signal's index i + 1 of total) has one
\* progress signal, emitted after the job of file i - 1 and before its own,
\* with percentage floor(100 * i / total); the percentages do not decrease
\* and stay below 100; the final progress signal (100) comes after the last
\* job and right before the finished summary.
C12_ProgressFloorPercent ==
    /\ ProgressInOrder
    /\ \A k \in 1..Started :
          Progress(emitted)[k][2] = (100 * (k - 1)) \div Len(files)

\* A text with no character other than white space.
Blank(text) == \A j \in 1..Len(text) : IsSpace(text[j])

\* The number of collaborator calls made for segment n.
CallsFor(calls, n) == Cardinality({ c \in 1..Len(calls) : calls[c][1] = n })

\* C13: translate_segments calls the collaborator once for each segment
\* whose text has words, also when that call raised, and not at all for a
\* segment whose text is empty or blank, which gets translated = "";
\* the calls are made in segment order; the segments returned are the
\* segments given, in the same order, each with translated set.
C13_OneCallPerSegmentWithText ==
    fn_out # <<>> =>
        LET out == fn_out.segments
            calls == fn_out.calls
        IN  /\ Len(out) = Len(fn_in)
            /\ \A n \in 1..Len(fn_in) :
                  /\ out[n].start = fn_in[n].start
                  /\ out[n].end = fn_in[n].end
                  /\ out[n].text = fn_in[n].text
                  /\ "translated" \in DOMAIN out[n]
                  /\ CallsFor(calls, n) = IF Blank(fn_in[n].text) THEN 0 ELSE 1
                  /\ Blank(fn_in[n].text) => out[n].translated = <<>>
            /\ \A c \in 1..Len(calls) : calls[c][1] \in 1..Len(fn_in)
            /\ \A c \in 1..(Len(calls) - 1) : calls[c][1] < calls[c + 1][1]

\* C13 witness: of two segments the first is blank and was not sent, the
\* second was sent once, the call raised, and it was not sent again.
C13_Witness ==
    /\ fn_out # <<>>
    /\ Len(fn_in) = 2
    /\ fn_in[1].text = <<" ", "\t">>
    /\ fn_in[2].text = <<" ", "h", "i">>
    /\ fn_out.calls = << <<2, FALSE>> >>
    /\ fn_out.segments[1].translated = <<>>
    /\ fn_out.segments[2].translated = <<" ", "h", "i">>

\* save_srt is being invoked, or was invoked, by the current job.
SaveSrtInvoked == wpc = "save_srt" \/ Len(job.calls) >= 4

\* C14: when the pipeline invokes save_srt every segment it passes has a
\* translated field: the collaborator's text, the original text after a
\* failed call, or "" for an empty text; the translated line of each cue
\* written is that field, never the serializer's fallback to text.
C14_TranslatedSetBeforeSave ==
    SaveSrtInvoked =>
        /\ job.segments # <<>>
        /\ \A n \in 1..Len(job.segments) :
              LET seg == job.segments[n]
              IN  /\ DOMAIN seg = {"start", "end", "text", "translated"}
                  /\ seg.text = <<>> => seg.translated = <<>>
                  /\ seg.text # <<>> =>
                        seg.translated \in { r.text : r \in Replies \ {Raised} } \cup {seg.text}
                  /\ job.srt_lines # <<>> =>
                        job.srt_lines[5 * (n - 1) + 3] = seg.translated

\* C14 witness: save_srt is about to be called with a segment of empty text
\* (translated "") and a segment whose translation failed (translated =
\* text).
C14_Witness ==
    /\ wpc = "save_srt"
    /\ Len(job.segments) = 2
    /\ \E n, m \in 1..2 :
          /\ job.segments[n].text = <<>>
          /\ job.segments[n].translated = <<>>
          /\ job.segments[m].text # <<>>
          /\ job.segments[m].translated = job.segments[m].text

\* The extension of a path is, whatever its case, one of the eight video
\* extensions.
VideoExtension(f) ==
    \E e \in { <<"m", "p", "4">>, <<"a", "v", "i">>, <<"m", "k", "v">>, <<"m", "o", "v">>,
               <<"w", "m", "v">>, <<"f", "l", "v">>, <<"w", "e", "b", "m">>,
               <<"m", "4", "v">> } :
        Lower(PathSuffix(f)) = <<".">> \o e

\* C15: video_files holds only paths with a video extension, compared
\* without regard to case, and no path twice; it changes only by being
\* emptied or by getting, at its end and in the order they arrived, the
\* paths of one drop or selection that have a video extension and are not
\* in it yet (so a.mp4, b.txt, c.MKV dropped on an empty list gives a.mp4,
\* c.MKV).
C15_FileListFilteredUniqueOrdered ==
    /\ [](/\ \A k \in 1..Len(video_files) : VideoExtension(video_files[k])
          /\ \A k, n \in 1..Len(video_files) :
                video_files[k] = video_files[n] => k = n)
    /\ [][video_files' # video_files =>
            \/ video_files' = <<>>
            \/ \E d \in Drops :
                  video_files' = video_files \o
                      SelectSeq(d, LAMBDA f : VideoExtension(f) /\ ~InSeq(f, video_files))
         ]_vars

\* C15 witness: a.mp4, b.txt, c.MKV were dropped and then a_subtitle.mp4,
\* a.mp4: the list is a.mp4, c.MKV, a_subtitle.mp4.
C15_Witness == video_files = <<A_MP4, C_MKV, A_SUB_MP4>>

\* The number a string of decimal digits denotes.
RECURSIVE NatOfStr(_)
NatOfStr(s) ==
    IF s = <<>> THEN 0
    ELSE 10 * NatOfStr(SubSeq(s, 1, Len(s) - 1))
         + (CHOOSE d \in 0..9 : DigitChars[d + 1] = s[Len(s)])

IsDigits(s) == \A j \in 1..Len(s) : \E d \in 1..10 : DigitChars[d] = s[j]

\* C16, as claimed: for a time of a whole number of milliseconds
\* format_time_srt returns HH:MM:SS,mmm, the hours on two digits (more from
\* 100 hours on), minutes and seconds on two digits and below 60, the
\* milliseconds on three digits, and the four numbers add up to the time
\* given; 0 gives 00:00:00,000 and 3725.25 gives 01:02:05,250.
C16_TimecodeDenotesInput ==
    fn_out # <<>> =>
        LET n == Len(fn_out)
            hh == SubSeq(fn_out, 1, n - 10)
            mm == SubSeq(fn_out, n - 8, n - 7)
            ss == SubSeq(fn_out, n - 5, n - 4)
            ms == SubSeq(fn_out, n - 2, n)
        IN  /\ n >= 12
            /\ fn_in < 360000000 => n = 12
            /\ fn_out[n - 9] = ":" /\ fn_out[n - 6] = ":" /\ fn_out[n - 3] = ","
            /\ IsDigits(hh) /\ IsDigits(mm) /\ IsDigits(ss) /\ IsDigits(ms)
            /\ NatOfStr(hh) = fn_in \div 3600000
            /\ NatOfStr(mm) < 60
            /\ NatOfStr(ss) < 60
            /\ NatOfStr(hh) * 3600000 + NatOfStr(mm) * 60000
                  + NatOfStr(ss) * 1000 + NatOfStr(ms) = fn_in
            /\ fn_in = 0 =>
                  fn_out = <<"0", "0", ":", "0", "0", ":", "0", "0", ",", "0", "0", "0">>
            /\ fn_in = 3725250 =>
                  fn_out = <<"0", "1", ":", "0", "2", ":", "0", "5", ",", "2", "5", "0">>

\* C17, as claimed: in a batch of pairwise distinct input paths the output
\* video path and the subtitle path of a job are the input path of no file
\* of the batch, and two different files of the batch have different
\* output video paths and different subtitle paths.
C17_NoPathCollisionInBatch ==
    (\A k, n \in 1..Len(files) : files[k] = files[n] => k = n) =>
        /\ job # NoJob =>
              /\ ~InSeq(job.output_path, files)
              /\ ~InSeq(job.srt_path, files)
              /\ \A w \in job.written : ~InSeq(w, files)
        /\ \A k, n \in 1..Len(files) :
              k # n =>
                  /\ OutputPath(files[k], NoDir) # OutputPath(files[n], NoDir)
                  /\ SrtPath(files[k], NoDir) # SrtPath(files[n], NoDir)

\* C18: at most one worker thread runs at a time.  A worker runs exactly
\* from start_processing to its terminal signal; while one runs, or its
\* terminal signal waits for its handler, is_processing is true.  A thread
\* is started only with is_processing false and a non-empty list, and
\* is_processing is true from that step on; is_processing goes back to
\* false only in the handler taking the terminal signal of the worker that
\* ended; while is_processing is true no thread is started and the running
\* batch is not restarted.
C18_OneWorkerAtATime ==
    /\ [](/\ threads \in {0, 1}
          /\ threads = 1 <=> wpc \notin {"none", "ended"}
          /\ Len(pending) <= 1
          /\ is_processing <=> (threads = 1 \/ pending # <<>>)
          /\ pending # <<>> => /\ wpc = "ended"
                               /\ Head(pending) = emitted[Len(emitted)])
    /\ [][/\ threads' > threads =>
               /\ ~is_processing /\ is_processing'
               /\ video_files # <<>>
               /\ threads' = 1
          /\ is_processing =>
               /\ threads' <= threads
               /\ files' = files
               /\ wpc' = "load_model" => wpc = "load_model"
          /\ (is_processing /\ ~is_processing') =>
               /\ pending # <<>> /\ pending' = Tail(pending)
               /\ Head(pending)[1] \in {"finished", "error"}
               /\ wpc = "ended"
         ]_vars

\* C18 witness: a job of a batch runs while the list, changed since the
\* start, is not empty, so that a start request made now passes the first
\* check and finds is_processing true.
C18_Witness ==
    /\ is_processing
    /\ threads = 1
    /\ InJob
    /\ video_files # <<>>
    /\ files # video_files

\* C19: the list a batch works on is the list of the window as it was when
\* start_processing was invoked: it is set in that step only, and a change
\* of video_files by a drop, a selection or a clear changes nothing of the
\* worker; the batch attempts exactly those files in that order, and every
\* progress signal and the finished summary report their number as total.
C19_BatchProcessesSnapshot ==
    /\ [](/\ \A k \in 1..Len(results) : results[k][1] = files[k]
          /\ \A k \in 1..Len(emitted) :
                /\ (emitted[k][1] = "progress" /\ Len(emitted[k]) = 5) =>
                      /\ emitted[k][4] = Len(files)
                      /\ emitted[k][5] = PathName(files[emitted[k][3]])
                /\ emitted[k][1] = "finished" =>
                      /\ emitted[k][3] = Len(files)
                      /\ Len(results) = Len(files))
    /\ [][/\ files' # files =>
               /\ ~is_processing /\ is_processing'
               /\ files' = video_files
               /\ video_files' = video_files
          /\ video_files' # video_files => UNCHANGED worker_vars
         ]_vars

\* C19 witness: the list was cleared while a batch of three files ran, and
\* the job of the third file is running.
C19_Witness ==
    /\ InJob
    /\ Len(files) = 3
    /\ loop_i = 2
    /\ job.video_path = files[3]
    /\ video_files = <<>>

====
